---- MODULE Spec2Model ----
(***************************************************************************)
(* gorm-auditable: the audit hooks of src/audit.go as a state machine.     *)
(*                                                                         *)
(* State: the business tables and the audit table of the storage           *)
(* collaborator, the callbacks attached to the storage handle and the      *)
(* handle's configuration, and for                                         *)
(* every worker the in-flight operation (a gorm.DB) with its position in   *)
(* the callback chain.  The hooks Create, Update and Delete are translated *)
(* statement by statement; each is two steps, split at its two storage     *)
(* calls (the snapshot read, the audit insert).                            *)
(*                                                                         *)
(* The storage handle wraps every create, update and delete in a           *)
(* transaction of its own unless it is told not to (SkipDefaultTransaction *)
(* in the handle's or the session's Config) or the operation already runs  *)
(* in a transaction of the host.  The audit session of a hook is derived   *)
(* from the operation's handle and writes on its connection, so an entry   *)
(* written before the operation fails is rolled back with it when the      *)
(* default transaction is on (tx), and stays when it is off.  Row locks,   *)
(* and what a panic or a failed audit insert does to an open transaction,  *)
(* are the database's and are not modelled.                                *)
(***************************************************************************)
EXTENDS Naturals, Sequences, FiniteSets, TLC

VARIABLES store, audit_logs, reg, config, pc, db, nOps

vars == <<store, audit_logs, reg, config, pc, db, nOps>>

(***************************************************************************)
(* Bounds.                                                                 *)
(***************************************************************************)
\* Operations the host starts in one behaviour.
MaxOps == 2

(***************************************************************************)
(* Program constants.                                                      *)
(***************************************************************************)
AuditTable == "audit_logs"

ContextKeyEmail == "email"

\* getCurrentUser's result when the context holds no actor.
CtxNonSpecified == "ctx-nonspecified"

\* The zero value of uuid.UUID: AuditLog.Id is never assigned by the hooks.
ZeroUUID == "00000000-0000-0000-0000-000000000000"

NoError == "nil"

(***************************************************************************)
(* Go values held in an interface{}: the dynamic type and the value.       *)
(***************************************************************************)
Str(s) == [k |-> "string", s |-> s]

\* encoding/json decodes every JSON number into a float64.
Float64(lit) == [k |-> "float64", s |-> lit]

Int(lit) == [k |-> "int", s |-> lit]

Nil == [k |-> "nil", s |-> ""]

\* The result of a Go call that may panic.
Ok(v) == [panic |-> FALSE, val |-> v]

Panic == [panic |-> TRUE, val |-> ""]

(***************************************************************************)
(* The audited entities of the host.  Widget{Id string `json:"id"`; Name   *)
(* string `json:"name"`} in table widgets; Gadget{Id json.Number           *)
(* `json:"id"`; Name string `json:"name"`} in table gadgets: its Id is of  *)
(* kind string and is encoded as a JSON number.                            *)
(***************************************************************************)
BusinessTables == {"widgets", "gadgets"}

Row(id, name) == [Id |-> id, Name |-> name]

NoRow == Row("", "")

\* json.Marshal of an entity: the members in field order, each a key, the
\* JSON type of the token and its literal.
Member(key, t, lit) == [key |-> key, t |-> t, lit |-> lit]

MarshalEntity(model, row) ==
    << Member("id", IF model = "gadgets" THEN "number" ELSE "string", row.Id),
       Member("name", "string", row.Name) >>

\* json.Unmarshal of an object into a map[string]interface{}.
DecodeToken(m) == IF m.t = "number" THEN Float64(m.lit) ELSE Str(m.lit)

Unmarshal(json) ==
    [key \in {json[i].key : i \in DOMAIN json} |->
        DecodeToken(json[CHOOSE i \in DOMAIN json : json[i].key = key])]

EmptyMap == [key \in {} |-> Nil]

\* json.Marshal of a map[string]interface{}: the keys in sorted order.
SortedKeys == <<"id", "name">>

EncodeValue(key, v) ==
    Member(key, IF v.k = "float64" THEN "number" ELSE "string", v.s)

InDomain(m, key) == key \in DOMAIN m

RECURSIVE MarshalFrom(_, _)
MarshalFrom(m, i) ==
    IF i > Len(SortedKeys) THEN << >>
    ELSE IF SortedKeys[i] \in DOMAIN m
         THEN <<EncodeValue(SortedKeys[i], m[SortedKeys[i]])>> \o MarshalFrom(m, i + 1)
         ELSE MarshalFrom(m, i + 1)

MarshalMap(m) == MarshalFrom(m, 1)

(***************************************************************************)
(* The pure helpers of src/audit.go.                                       *)
(***************************************************************************)
\* ctx.Value(key): the context carries at most the actor key.
CtxValue(ctx, key) == IF key = ContextKeyEmail THEN ctx.email ELSE Nil

\* Mutant: the actor is never read from the context.
getCurrentUserMutant(ctx) == Ok(CtxNonSpecified)

getCurrentUser(ctx) ==
    IF CtxValue(ctx, ContextKeyEmail) = Nil
    THEN Ok(CtxNonSpecified)
    ELSE IF CtxValue(ctx, ContextKeyEmail).k = "string"
         THEN Ok(CtxValue(ctx, ContextKeyEmail).s)
         ELSE Panic

getKeyFromData(key, data) ==
    IF ~InDomain(data, key)
    THEN Ok("")
    ELSE IF data[key].k = "string" THEN Ok(data[key].s) ELSE Panic

prepareData(data) == MarshalMap(data)


(***************************************************************************)
(* RegisterCallbacks: the three registrations, in the order of the code.   *)
(***************************************************************************)
CreateRegistration ==
    [op |-> "create", at |-> "after", ref |-> "gorm:create",
     name |-> "custom_plugin:create_audit_log"]

\* Mutant: the update hook is registered before gorm:update.
UpdateRegistrationMutant ==
    [op |-> "update", at |-> "before", ref |-> "gorm:update",
     name |-> "custom_plugin:update_audit_log"]

UpdateRegistration ==
    [op |-> "update", at |-> "after", ref |-> "gorm:update",
     name |-> "custom_plugin:update_audit_log"]

\* Mutant: the delete hook is registered after gorm:delete.
DeleteRegistrationMutant ==
    [op |-> "delete", at |-> "after", ref |-> "gorm:delete",
     name |-> "custom_plugin:delete_audit_log"]

DeleteRegistration ==
    [op |-> "delete", at |-> "before", ref |-> "gorm:delete",
     name |-> "custom_plugin:delete_audit_log"]

Registrations == {CreateRegistration, UpdateRegistration, DeleteRegistration}

\* The error Register returns for a callback it refuses.
RegisterError(r) == "register " \o r.name

\* The names Register refuses in one run: any of the three.
FailingInputs == SUBSET {r.name : r \in Registrations}

\* Mutant: a failed registration does not stop the later ones.
RegisterCallbacksResultMutantContinue(attached, failing) ==
    [attached |-> attached \cup {r \in Registrations : r.name \notin failing},
     err |-> IF CreateRegistration.name \in failing
             THEN RegisterError(CreateRegistration)
             ELSE IF UpdateRegistration.name \in failing
             THEN RegisterError(UpdateRegistration)
             ELSE IF DeleteRegistration.name \in failing
             THEN RegisterError(DeleteRegistration)
             ELSE NoError]

\* Mutant: the error of the delete registration is dropped.
RegisterCallbacksResultMutant(attached, failing) ==
    IF CreateRegistration.name \in failing
    THEN [attached |-> attached, err |-> RegisterError(CreateRegistration)]
    ELSE IF UpdateRegistration.name \in failing
    THEN [attached |-> attached \cup {CreateRegistration},
          err |-> RegisterError(UpdateRegistration)]
    ELSE [attached |-> attached \cup
                       {r \in Registrations : r.name \notin failing},
          err |-> NoError]

\* The callbacks attached when RegisterCallbacks returns, and what it returns.
RegisterCallbacksResult(attached, failing) ==
    IF CreateRegistration.name \in failing
    THEN [attached |-> attached, err |-> RegisterError(CreateRegistration)]
    ELSE IF UpdateRegistration.name \in failing
    THEN [attached |-> attached \cup {CreateRegistration},
          err |-> RegisterError(UpdateRegistration)]
    ELSE IF DeleteRegistration.name \in failing
    THEN [attached |-> attached \cup {CreateRegistration, UpdateRegistration},
          err |-> RegisterError(DeleteRegistration)]
    ELSE [attached |-> attached \cup Registrations, err |-> NoError]

\* A set of at most one element as a sequence.
AsSeq(S) == IF S = {} THEN << >> ELSE <<CHOOSE x \in S : TRUE>>

\* The callbacks the storage handle runs for one kind of operation, in order.
CallbackChain(kind, attached) ==
    AsSeq({r.name : r \in {x \in attached : x.op = kind /\ x.at = "before"}})
    \o <<"gorm:" \o kind>>
    \o AsSeq({r.name : r \in {x \in attached : x.op = kind /\ x.at = "after"}})

(***************************************************************************)
(* The storage collaborator.                                               *)
(***************************************************************************)
Lookup(rows, pk) == {r \in rows : r.Id = pk}

\* Mutant: the Where clause is lost, First returns the table's first row.
FirstMutantNoWhere(model, pk, fault) ==
    IF fault \/ model \notin BusinessTables \/ store[model] = {}
    THEN [err |-> "record not found", row |-> NoRow]
    ELSE [err |-> NoError,
          row |-> CHOOSE r \in store[model] : TRUE]

\* First(&targetObj) under Where("id = ?", pk): the row, or an error when
\* the model names no table, no row matches or the read fails.
First(model, pk, fault) ==
    IF fault \/ model \notin BusinessTables \/ Lookup(store[model], pk) = {}
    THEN [err |-> "record not found", row |-> NoRow]
    ELSE [err |-> NoError, row |-> CHOOSE r \in Lookup(store[model], pk) : TRUE]

\* Mutant: the audit write is an upsert, a row of the same id is replaced.
InsertAuditMutantUpsert(rows, entry, fault) ==
    IF fault THEN [err |-> "insert failed", rows |-> rows]
    ELSE IF \E i \in DOMAIN rows : rows[i].Id = entry.Id
    THEN [err |-> NoError,
          rows |-> [i \in DOMAIN rows |->
                      IF rows[i].Id = entry.Id THEN entry ELSE rows[i]]]
    ELSE [err |-> NoError, rows |-> Append(rows, entry)]

\* Table(AuditTable).Create(auditLog): audit_logs.id is the primary key.
InsertAudit(rows, entry, fault) ==
    IF fault \/ \E i \in DOMAIN rows : rows[i].Id = entry.Id
    THEN [err |-> "insert failed", rows |-> rows]
    ELSE [err |-> NoError, rows |-> Append(rows, entry)]

(***************************************************************************)
(* AuditLog.  op is history: the operation whose hook built the entry      *)
(* (0 for a row the host wrote itself).                                    *)
(***************************************************************************)
AuditLog(table, opType, objId, data, user, op) ==
    [Id |-> ZeroUUID, TableName |-> table, OperationType |-> opType,
     ObjectId |-> objId, Data |-> data, UserId |-> user, op |-> op]

NoAuditLog == AuditLog("", "", "", << >>, "", 0) 

\* The audit row a host writes when it mutates audit_logs itself.
HostAuditLog ==
    [Id |-> "h1", TableName |-> "widgets", OperationType |-> "CREATE",
     ObjectId |-> "42", Data |-> << >>, UserId |-> "host", op |-> 0]


(***************************************************************************)
(* The in-flight operation of a worker: the fields of gorm.DB and of its   *)
(* Statement the hooks read, the hook's locals, and two history fields     *)
(* (op, mark) that the code does not hold.  exit is the path the hook     *)
(* left by and nested the path of the hook invocation its audit write      *)
(* started.                                                                *)
(***************************************************************************)
Procs == {"w1", "w2"}

\* The workers that run operations under Spec: the host is sequential.
Workers == {"w1"}

Kinds == {"create", "update", "delete"}

\* What an operation is aimed at: Statement.Table, whether Statement.Schema
\* is set, the kind of Statement.ReflectValue, the table of the value's type
\* and the value's Id field.
Target(table, schema, vkind, model, id) ==
    [table |-> table, schema |-> schema, vkind |-> vkind, model |-> model, Id |-> id]

WidgetStruct == Target("widgets", TRUE, "struct", "widgets", "42")

\* db.Create(&[]Widget{w}): the value is a slice.
WidgetSlice == Target("widgets", TRUE, "slice", "widgets", "42")

GadgetStruct == Target("gadgets", TRUE, "struct", "gadgets", "7")

\* The host mutating audit_logs itself.
AuditStruct == Target(AuditTable, TRUE, "struct", AuditTable, HostAuditLog.Id)

\* db.Table("widgets").Create(map): no schema is parsed for a map.
WidgetMap == Target("widgets", FALSE, "map", "", "42")

\* db.Table("audit_logs").Create(map): the host mutating audit_logs with a
\* value no schema is parsed for.
AuditMap == Target(AuditTable, FALSE, "map", "", HostAuditLog.Id)

Targets == {WidgetStruct, WidgetSlice, GadgetStruct, AuditStruct, WidgetMap, AuditMap}

NamesOf(t) == IF t = WidgetStruct THEN {"a", "b"} ELSE {"a"}

\* The operation's context: no actor, a string actor, an actor of another type.
Context(v) == [email |-> v]

Contexts == {Context(Nil), Context(Str("alice")), Context(Int("7"))}

\* db.Error as the chain starts: nil, or set by an earlier callback.
EarlyErrors == {NoError, "invalid value"}

IdleDB ==
    [op |-> 0, kind |-> "create", table |-> "", schema |-> FALSE, vkind |-> "",
     model |-> "", Id |-> "", Name |-> "", ctx |-> Context(Nil), dryRun |-> FALSE,
     tx |-> FALSE, err |-> NoError, chain |-> << >>, pos |-> 0, recordMap |-> EmptyMap,
     auditLog |-> NoAuditLog, exit |-> "none", nested |-> "none", mark |-> NoRow]

NewDB(op, kind, t, name, ctx, dry, tx, err, chain) ==
    [IdleDB EXCEPT !.op = op, !.kind = kind, !.table = t.table, !.schema = t.schema,
                   !.vkind = t.vkind, !.model = t.model, !.Id = t.Id, !.Name = name,
                   !.ctx = ctx, !.dryRun = dry, !.tx = tx, !.err = err,
                   !.chain = chain, !.pos = 1]

\* The callback the worker is at.
Current(p) ==
    IF pc[p] \in {"callback", "persist"} THEN db[p].chain[db[p].pos] ELSE "none"

\* The worker's position once the callback at d.pos has returned.
NextPc(d) == IF d.pos = Len(d.chain) THEN "returned" ELSE "callback"

Returned(d) == [d EXCEPT !.pos = IF d.pos = Len(d.chain) THEN d.pos ELSE d.pos + 1]

(***************************************************************************)
(* Init: the storage as the host finds it, no callback attached.           *)
(***************************************************************************)
SeedStores ==
    { [widgets |-> {}, gadgets |-> {}],
      [widgets |-> {Row("42", "a")}, gadgets |-> {Row("7", "a")}] }

\* gorm.Config of the handle: the default transaction is on unless the host
\* opened the handle with SkipDefaultTransaction.
Configs == {[SkipDefaultTransaction |-> skip] : skip \in BOOLEAN}

Init ==
    /\ store \in SeedStores
    /\ audit_logs = << >>
    /\ reg = [attached |-> {}, result |-> "none", failing |-> {}]
    /\ config \in Configs
    /\ pc = [p \in Procs |-> "idle"]
    /\ db = [p \in Procs |-> IdleDB]
    /\ nOps = 0

InFlight(p) == pc[p] \in {"callback", "persist"}

RegisterCallbacks ==
    /\ reg.result = "none"
    /\ \A p \in Procs : ~InFlight(p)
    /\ \E failing \in FailingInputs :
         LET r == RegisterCallbacksResult(reg.attached, failing)
         IN reg' = [attached |-> r.attached, result |-> r.err, failing |-> failing]
    /\ UNCHANGED <<store, audit_logs, config, pc, db, nOps>>

\* The host starts an operation on the storage handle.
Begin(p) ==
    /\ ~InFlight(p)
    /\ nOps < MaxOps
    /\ \E kind \in Kinds, t \in Targets, ctx \in Contexts, dry \in BOOLEAN,
          err \in EarlyErrors :
         \E name \in NamesOf(t) :
           db' = [db EXCEPT ![p] = NewDB(nOps + 1, kind, t, name, ctx, dry,
                                         ~config.SkipDefaultTransaction, err,
                                         CallbackChain(kind, reg.attached))]
    /\ pc' = [pc EXCEPT ![p] = "callback"]
    /\ nOps' = nOps + 1
    /\ UNCHANGED <<store, audit_logs, reg, config>>

(***************************************************************************)
(* The storage collaborator's own callbacks: gorm:create, gorm:update and  *)
(* gorm:delete.  Each does nothing when db.Error is set or on a dry run.   *)
(***************************************************************************)
Skips(d) == d.err # NoError \/ d.dryRun

\* The default transaction of a failed operation is rolled back: what the
\* operation's hook wrote on its connection is undone.
Rollback(rows, d) ==
    IF d.tx THEN SelectSeq(rows, LAMBDA r : r.op # d.op \/ r.op = 0) ELSE rows

MarkOf(rows, d) ==
    IF Lookup(rows, d.Id) = {} THEN NoRow ELSE CHOOSE r \in Lookup(rows, d.Id) : TRUE

CoreDone(p, d) ==
    /\ db' = [db EXCEPT ![p] = Returned(d)]
    /\ pc' = [pc EXCEPT ![p] = NextPc(d)]
    /\ UNCHANGED <<reg, config, nOps>>

GormCreate(p) ==
    /\ pc[p] = "callback" /\ Current(p) = "gorm:create"
    /\ LET d == db[p] IN
       \E fault \in BOOLEAN :
         IF Skips(d) THEN
            /\ ~fault
            /\ UNCHANGED <<store, audit_logs>>
            /\ CoreDone(p, d)
         ELSE IF d.table = AuditTable THEN
            LET r == InsertAudit(audit_logs, HostAuditLog, fault) IN
            /\ audit_logs' = r.rows
            /\ UNCHANGED store
            /\ CoreDone(p, [d EXCEPT !.err = r.err])
         ELSE IF fault \/ Lookup(store[d.table], d.Id) # {} THEN
            /\ UNCHANGED <<store, audit_logs>>
            /\ CoreDone(p, [d EXCEPT !.err = "create failed",
                                     !.mark = MarkOf(store[d.table], d)])
         ELSE
            /\ store' = [store EXCEPT ![d.table] = @ \cup {Row(d.Id, d.Name)}]
            /\ UNCHANGED audit_logs
            /\ CoreDone(p, [d EXCEPT !.mark = Row(d.Id, d.Name)])

GormUpdate(p) ==
    /\ pc[p] = "callback" /\ Current(p) = "gorm:update"
    /\ LET d == db[p] IN
       \E fault \in BOOLEAN :
         IF Skips(d) THEN
            /\ ~fault
            /\ UNCHANGED <<store, audit_logs>>
            /\ CoreDone(p, d)
         ELSE IF fault THEN
            /\ UNCHANGED <<store, audit_logs>>
            /\ CoreDone(p, [d EXCEPT !.err = "update failed",
                                     !.mark = IF d.table = AuditTable THEN NoRow
                                              ELSE MarkOf(store[d.table], d)])
         ELSE IF d.table = AuditTable THEN
            /\ audit_logs' = [i \in DOMAIN audit_logs |->
                                IF audit_logs[i].Id = d.Id THEN HostAuditLog
                                ELSE audit_logs[i]]
            /\ UNCHANGED store
            /\ CoreDone(p, d)
         ELSE
            /\ store' = [store EXCEPT ![d.table] =
                            {IF r.Id = d.Id THEN Row(d.Id, d.Name) ELSE r : r \in @}]
            /\ UNCHANGED audit_logs
            /\ CoreDone(p, [d EXCEPT !.mark = MarkOf(store'[d.table], d)])

GormDelete(p) ==
    /\ pc[p] = "callback" /\ Current(p) = "gorm:delete"
    /\ LET d == db[p] IN
       \E fault \in BOOLEAN :
         IF Skips(d) THEN
            /\ ~fault
            /\ UNCHANGED <<store, audit_logs>>
            /\ CoreDone(p, d)
         ELSE IF fault THEN
            /\ audit_logs' = Rollback(audit_logs, d)
            /\ UNCHANGED store
            /\ CoreDone(p, [d EXCEPT !.err = "delete failed",
                                     !.mark = IF d.table = AuditTable THEN NoRow
                                              ELSE MarkOf(store[d.table], d)])
         ELSE IF d.table = AuditTable THEN
            /\ audit_logs' = SelectSeq(audit_logs, LAMBDA r : r.Id # d.Id)
            /\ UNCHANGED store
            /\ CoreDone(p, d)
         ELSE
            /\ store' = [store EXCEPT ![d.table] = @ \ Lookup(@, d.Id)]
            /\ UNCHANGED audit_logs
            /\ CoreDone(p, [d EXCEPT !.mark = MarkOf(store[d.table], d)])


(***************************************************************************)
(* The hooks.                                                              *)
(***************************************************************************)
\* The guard at the top of every hook.
Guard(d) == (d.schema /\ d.table = AuditTable) \/ d.err # NoError

\* value.FieldByName("Id").String() of a struct, "" of any other kind.
PrimaryKeyValue(d) == IF d.vkind = "struct" THEN d.Id ELSE ""

\* The audit session is db.Session(...): it keeps the handle's DryRun.
SessionDryRun(d) == d.dryRun

\* Mutant: the snapshot is taken from the operation's own value, not from
\* the row that was read back.
getDataBeforeOperationMutantOwnValue(d, fault) ==
    IF d.err = NoError /\ ~d.dryRun
    THEN LET found == First(d.model, PrimaryKeyValue(d), fault) IN
         IF found.err # NoError
         THEN [err |-> found.err, map |-> EmptyMap]
         ELSE IF d.vkind # "struct"
         THEN [err |-> "json: cannot unmarshal array", map |-> EmptyMap]
         ELSE [err |-> NoError,
               map |-> Unmarshal(MarshalEntity(d.model, Row(d.Id, d.Name)))]
    ELSE [err |-> NoError, map |-> EmptyMap]

\* Mutant: the snapshot is read on a dry run too.
getDataBeforeOperationMutantNoDryRun(d, fault) ==
    IF d.err = NoError
    THEN LET found == First(d.model, PrimaryKeyValue(d), fault) IN
         IF found.err # NoError
         THEN [err |-> found.err, map |-> EmptyMap]
         ELSE IF d.vkind # "struct"
         THEN [err |-> "json: cannot unmarshal array", map |-> EmptyMap]
         ELSE [err |-> NoError, map |-> Unmarshal(MarshalEntity(d.model, found.row))]
    ELSE [err |-> NoError, map |-> EmptyMap]

\* Mutant: a failed read is logged and an empty snapshot returned.
getDataBeforeOperationMutant(d, fault) ==
    IF d.err = NoError /\ ~d.dryRun
    THEN LET found == First(d.model, PrimaryKeyValue(d), fault) IN
         IF found.err # NoError
         THEN [err |-> NoError, map |-> EmptyMap]
         ELSE IF d.vkind # "struct"
         THEN [err |-> "json: cannot unmarshal array", map |-> EmptyMap]
         ELSE [err |-> NoError, map |-> Unmarshal(MarshalEntity(d.model, found.row))]
    ELSE [err |-> NoError, map |-> EmptyMap]

getDataBeforeOperation(d, fault) ==
    IF d.err = NoError /\ ~d.dryRun
    THEN LET found == First(d.model, PrimaryKeyValue(d), fault) IN
         IF found.err # NoError
         THEN [err |-> found.err, map |-> EmptyMap]
         ELSE IF d.vkind # "struct"
         \* a slice is encoded as a JSON array, which no map decodes
         THEN [err |-> "json: cannot unmarshal array", map |-> EmptyMap]
         ELSE [err |-> NoError, map |-> Unmarshal(MarshalEntity(d.model, found.row))]
    ELSE [err |-> NoError, map |-> EmptyMap]

\* The AuditLog literal of a hook; it panics where the code dereferences a
\* nil Schema or asserts a string that is none.
BuildAuditLog(d, opType) ==
    LET objId == getKeyFromData("id", d.recordMap)
        user  == getCurrentUser(d.ctx)
    IN IF objId.panic \/ ~d.schema \/ user.panic
       THEN [panic |-> TRUE, val |-> NoAuditLog]
       ELSE [panic |-> FALSE,
             val |-> AuditLog(d.table, opType, objId.val, prepareData(d.recordMap),
                              user.val, d.op)]

\* Create(auditLog) is a create operation on the storage handle.  SkipHooks
\* turns off the hook methods of the model (BeforeCreate, ...), not the
\* callbacks registered on the handle, so the create hook is entered again,
\* with the audit row as its operation: nd is that operation.
AuditWrite(d, err) ==
    [IdleDB EXCEPT !.op = d.op, !.kind = "create", !.table = AuditTable,
                   !.schema = TRUE, !.vkind = "struct", !.model = AuditTable,
                   !.Id = "<uuid.UUID Value>", !.ctx = d.ctx, !.dryRun = d.dryRun,
                   !.err = err]

\* How the hook invocation started by the audit write ends.
NestedExit(attached, nd) ==
    IF CreateRegistration.name \notin {r.name : r \in attached} THEN "none"
    ELSE IF Guard(nd) THEN "guard"
    ELSE "proceeds"

\* Mutant: the hook adds its error to the operation.
ErrorAfterHookMutant(d, err) == err

\* db.Error once the hook has handled err: it logs err and returns.
ErrorAfterHook(d, err) == d.err

CreateOperationType == "CREATE"

UpdateOperationType == "UPDATE"

\* Mutant: the delete hook keeps the operation type of the hook it was copied from.
DeleteOperationTypeMutant == "UPDATE"

DeleteOperationType == "DELETE"

HookDone(p, d, exit) ==
    /\ db' = [db EXCEPT ![p] = Returned([d EXCEPT !.exit = exit])]
    /\ pc' = [pc EXCEPT ![p] = NextPc(d)]

\* The hook up to its snapshot read.
HookCapture(p) ==
    /\ pc[p] = "callback"
    /\ LET d == db[p] IN
       IF Guard(d) THEN
          /\ HookDone(p, d, "guard")
          /\ UNCHANGED <<store, audit_logs, reg, config, nOps>>
       ELSE
          \E fault \in BOOLEAN :
            LET r == getDataBeforeOperation(d, fault) IN
            /\ (d.dryRun => ~fault)
            /\ IF r.err # NoError
               THEN HookDone(p, [d EXCEPT !.err = ErrorAfterHook(d, r.err)], "capture")
               ELSE /\ db' = [db EXCEPT ![p] = [d EXCEPT !.recordMap = r.map]]
                    /\ pc' = [pc EXCEPT ![p] = "persist"]
            /\ UNCHANGED <<store, audit_logs, reg, config, nOps>>

\* The hook from the snapshot on: the entry is built and inserted.
HookPersist(p, opType) ==
    /\ pc[p] = "persist"
    /\ LET d == db[p]
           auditLog == BuildAuditLog(d, opType)
       IN IF auditLog.panic THEN
             /\ db' = [db EXCEPT ![p] = [d EXCEPT !.exit = "panic"]]
             /\ pc' = [pc EXCEPT ![p] = "panicked"]
             /\ UNCHANGED <<store, audit_logs, reg, config, nOps>>
          ELSE
             \E fault \in BOOLEAN :
               LET r == IF SessionDryRun(d)
                        THEN [err |-> NoError, rows |-> audit_logs]
                        ELSE InsertAudit(audit_logs, auditLog.val, fault)
                   built == [d EXCEPT !.auditLog = auditLog.val,
                                      !.nested = NestedExit(reg.attached,
                                                            AuditWrite(d, r.err))]
               IN /\ (SessionDryRun(d) => ~fault)
                  /\ audit_logs' = r.rows
                  /\ IF r.err # NoError
                     THEN HookDone(p, [built EXCEPT !.err = ErrorAfterHook(d, r.err)],
                                   "persist")
                     ELSE HookDone(p, built, "ok")
                  /\ UNCHANGED <<store, reg, config, nOps>>

Create(p) ==
    /\ Current(p) = CreateRegistration.name
    /\ HookCapture(p) \/ HookPersist(p, CreateOperationType)

Update(p) ==
    /\ Current(p) = UpdateRegistration.name
    /\ HookCapture(p) \/ HookPersist(p, UpdateOperationType)

Delete(p) ==
    /\ Current(p) = DeleteRegistration.name
    /\ HookCapture(p) \/ HookPersist(p, DeleteOperationType)

Step(p) ==
    \/ Begin(p)
    \/ GormCreate(p)
    \/ GormUpdate(p)
    \/ GormDelete(p)
    \/ Create(p)
    \/ Update(p)
    \/ Delete(p)

Next ==
    \/ RegisterCallbacks
    \/ \E p \in Workers : Step(p)

Spec == Init /\ [][Next]_vars

(***************************************************************************)
(* Concurrent hosts.  Two goroutines each run one operation on the shared  *)
(* storage handle, after RegisterCallbacks has returned nil.  The hooks    *)
(* take no lock, so the callbacks of the two operations interleave at      *)
(* every storage call.  The operations are aimed at two rows of widgets    *)
(* and run without the default transaction.                                *)
(***************************************************************************)
WidgetOther == Target("widgets", TRUE, "struct", "widgets", "43")

ConcTargets == {WidgetStruct, WidgetOther}

\* The names the concurrent operations write; the stored rows hold "a".
ConcNames == {"b", "c"}

ConcContexts == {Context(Nil), Context(Str("alice")), Context(Str("bob"))}

ConcSeedStores ==
    { [widgets |-> {}, gadgets |-> {}],
      [widgets |-> {Row("42", "a"), Row("43", "a")}, gadgets |-> {}] }

ConcInit ==
    /\ store \in ConcSeedStores
    /\ audit_logs = << >>
    /\ reg = [attached |-> RegisterCallbacksResult({}, {}).attached,
              result |-> RegisterCallbacksResult({}, {}).err, failing |-> {}]
    /\ config = [SkipDefaultTransaction |-> TRUE]
    /\ pc = [p \in Procs |-> "idle"]
    /\ db = [p \in Procs |-> IdleDB]
    /\ nOps = 0

\* A goroutine starts its operation.
ConcBegin(p) ==
    /\ pc[p] = "idle"
    /\ nOps < MaxOps
    /\ \E kind \in Kinds, t \in ConcTargets, name \in ConcNames,
          ctx \in ConcContexts :
         db' = [db EXCEPT ![p] = NewDB(nOps + 1, kind, t, name, ctx, FALSE,
                                       ~config.SkipDefaultTransaction, NoError,
                                       CallbackChain(kind, reg.attached))]
    /\ pc' = [pc EXCEPT ![p] = "callback"]
    /\ nOps' = nOps + 1
    /\ UNCHANGED <<store, audit_logs, reg, config>>

ConcStep(p) ==
    \/ ConcBegin(p)
    \/ GormCreate(p)
    \/ GormUpdate(p)
    \/ GormDelete(p)
    \/ Create(p)
    \/ Update(p)
    \/ Delete(p)

ConcNext == \E p \in Procs : ConcStep(p)

ConcSpec == ConcInit /\ [][ConcNext]_vars


(***************************************************************************)
(* Vocabulary of the properties.                                           *)
(***************************************************************************)
\* The audit rows built by the hook of operation op.
Entries(op) == {i \in DOMAIN audit_logs : audit_logs[i].op = op /\ op # 0}

OperationTypeOf(kind) ==
    IF kind = "create" THEN "CREATE" ELSE IF kind = "update" THEN "UPDATE" ELSE "DELETE"

HookNameOf(kind) == "custom_plugin:" \o kind \o "_audit_log"

HookAttached(d) == \E i \in DOMAIN d.chain : d.chain[i] = HookNameOf(d.kind)

\* The operation has returned to the host without an error.
Succeeded(p) == pc[p] = "returned" /\ db[p].err = NoError

\* The operation failed under the default transaction: what it and its
\* hook wrote is rolled back.
RolledBack(d) == d.tx /\ d.err # NoError

\* The JSON object a row of the table is audited as.
DataOf(table, row) ==
    << [key |-> "id", t |-> IF table = "gadgets" THEN "number" ELSE "string",
        lit |-> row.Id],
       [key |-> "name", t |-> "string", lit |-> row.Name] >>

HookNames == {r.name : r \in Registrations}

\* A step taken inside a hook by some worker.
HookStep ==
    \E p \in Procs :
      /\ Current(p) \in HookNames
      /\ <<pc[p], db[p]>>' # <<pc[p], db[p]>>

IsPrefix(s, t) == Len(s) <= Len(t) /\ \A i \in DOMAIN s : s[i] = t[i]

(***************************************************************************)
(* C1.  As claimed: every successful CREATE, UPDATE or DELETE on a table   *)
(* other than audit_logs leaves exactly one AuditEntry of its own, with    *)
(* the operation's type and table.  Stated for operations that run with    *)
(* their hook attached, on a parsed schema, and that are no dry run.       *)
(***************************************************************************)
C1_ExactlyOneEntryPerSuccess ==
    \A p \in Procs :
      (Succeeded(p) /\ db[p].table # AuditTable /\ HookAttached(db[p])
         /\ db[p].schema /\ ~db[p].dryRun)
      => /\ Cardinality(Entries(db[p].op)) = 1
         /\ \A i \in Entries(db[p].op) :
              /\ audit_logs[i].OperationType = OperationTypeOf(db[p].kind)
              /\ audit_logs[i].TableName = db[p].table

(***************************************************************************)
(* C1, amended.  No operation ever has more than one AuditEntry.  A        *)
(* successful operation on a table other than audit_logs has exactly one,  *)
(* with its operation type and table, if its hook's snapshot read and      *)
(* audit insert both succeeded and it was no dry run, and none otherwise.  *)
(***************************************************************************)
C1_OneEntryIfHookSucceeded ==
    \A p \in Procs :
      /\ Cardinality(Entries(db[p].op)) <= 1
      /\ (Succeeded(p) /\ db[p].table # AuditTable)
         => IF db[p].exit = "ok" /\ ~db[p].dryRun
            THEN /\ Cardinality(Entries(db[p].op)) = 1
                 /\ \A i \in Entries(db[p].op) :
                      /\ audit_logs[i].OperationType = OperationTypeOf(db[p].kind)
                      /\ audit_logs[i].TableName = db[p].table
            ELSE Entries(db[p].op) = {}

\* A delete of a widget has returned without error and is audited once.
C1_Witness ==
    \E p \in Procs :
      /\ Succeeded(p) /\ db[p].kind = "delete" /\ db[p].table = "widgets"
      /\ db[p].exit = "ok"
      /\ \E i \in Entries(db[p].op) : audit_logs[i].OperationType = "DELETE"

(***************************************************************************)
(* C2.  The CREATE and UPDATE hooks run after gorm:create and gorm:update, *)
(* and the data of the entry they write is the row as the operation left   *)
(* it: for an update, the updated values.                                  *)
(***************************************************************************)
C2_CreateUpdateAuditedAfter ==
    \A p \in Procs :
      db[p].kind \in {"create", "update"}
      => /\ Current(p) = HookNameOf(db[p].kind)
            => /\ db[p].pos = 2
               /\ db[p].chain[1] = "gorm:" \o db[p].kind
         /\ \A i \in Entries(db[p].op) :
              /\ db[p].mark # NoRow
              /\ Lookup(store[db[p].table], db[p].Id) = {db[p].mark}
              /\ audit_logs[i].Data = DataOf(db[p].table, db[p].mark)

\* Widget 42 was named a, was updated to b, and the entry holds b.
C2_Witness ==
    \E p \in Procs :
      /\ Succeeded(p) /\ db[p].kind = "update" /\ db[p].Name = "b"
      /\ Row("42", "a") \notin store.widgets
      /\ \E i \in Entries(db[p].op) :
           /\ audit_logs[i].OperationType = "UPDATE"
           /\ audit_logs[i].Data = DataOf("widgets", Row("42", "b"))

(***************************************************************************)
(* C3.  The DELETE hook runs before gorm:delete: while the hook runs the   *)
(* delete has not executed, an entry written by it finds its row still in  *)
(* storage, and its data is the row as it was just before the removal.     *)
(***************************************************************************)
C3_DeleteAuditedBefore ==
    \A p \in Procs :
      db[p].kind = "delete"
      => /\ Current(p) = HookNameOf("delete")
            => /\ db[p].pos = 1
               /\ db[p].chain[2] = "gorm:delete"
         /\ \A i \in Entries(db[p].op) :
              IF Current(p) = "gorm:delete"
              THEN /\ Lookup(store[db[p].table], db[p].Id) # {}
                   /\ \A r \in Lookup(store[db[p].table], db[p].Id) :
                        audit_logs[i].Data = DataOf(db[p].table, r)
              ELSE /\ db[p].mark # NoRow
                   /\ audit_logs[i].Data = DataOf(db[p].table, db[p].mark)

\* Widget 42 is gone and its DELETE entry holds the row it was.
C3_Witness ==
    \E p \in Procs :
      /\ Succeeded(p) /\ db[p].kind = "delete" /\ db[p].table = "widgets"
      /\ store.widgets = {}
      /\ \E i \in Entries(db[p].op) :
           audit_logs[i].Data = DataOf("widgets", Row("42", "a"))


(***************************************************************************)
(* C4.  As claimed: no entry built by a hook names audit_logs as its       *)
(* table, and no audit write ever starts a hook invocation: nested is the  *)
(* way the hook invocation started by an audit write ended, "none" when    *)
(* the write started none.                                                 *)
(***************************************************************************)
C4_NoSelfAuditNoNesting ==
    /\ \A i \in DOMAIN audit_logs :
         audit_logs[i].op # 0 => audit_logs[i].TableName # AuditTable
    /\ \A p \in Procs : db[p].nested = "none"

(***************************************************************************)
(* C5.  When the audit insert fails inside a hook, the hook's error does   *)
(* not become the operation's: a create or update that got as far as the   *)
(* insert returns without error and its row stays as it wrote it, a delete *)
(* goes on to gorm:delete without error, and the operation has no entry.   *)
(***************************************************************************)
C5_PersistFailureIsolated ==
    \A p \in Procs :
      db[p].exit = "persist"
      => /\ Entries(db[p].op) = {}
         /\ pc[p] # "panicked"
         /\ db[p].err \in {NoError, "delete failed"}
         /\ db[p].kind \in {"create", "update"}
            => /\ Succeeded(p)
               /\ db[p].mark # NoRow
               /\ Lookup(store[db[p].table], db[p].Id) = {db[p].mark}
         /\ db[p].kind = "delete"
            => /\ Current(p) = "gorm:delete" => db[p].err = NoError
               /\ Succeeded(p) => Lookup(store[db[p].table], db[p].Id) = {}
               /\ db[p].err = "delete failed" => pc[p] = "returned"

\* A create whose audit insert failed has returned without error, its row
\* is stored and no entry was added.
C5_Witness ==
    \E p \in Procs :
      /\ Succeeded(p) /\ db[p].kind = "create" /\ db[p].exit = "persist"
      /\ Row(db[p].Id, db[p].Name) \in store[db[p].table]
      /\ Entries(db[p].op) = {}

(***************************************************************************)
(* C6.  When the snapshot read fails the hook inserts no entry and leaves  *)
(* the operation's error as it found it.  In particular an update that     *)
(* matched no row returns without error and without an entry.              *)
(***************************************************************************)
C6_CaptureFailureIsolated ==
    \A p \in Procs :
      /\ db[p].exit = "capture"
         => /\ Entries(db[p].op) = {}
            /\ pc[p] # "panicked"
            /\ db[p].err \in {NoError, "delete failed"}
            /\ db[p].kind \in {"create", "update"} => Succeeded(p)
            /\ (db[p].kind = "delete" /\ Current(p) = "gorm:delete")
               => db[p].err = NoError
      /\ (Succeeded(p) /\ db[p].kind = "update" /\ HookAttached(db[p])
            /\ db[p].table # AuditTable /\ ~db[p].dryRun /\ db[p].mark = NoRow)
         => /\ db[p].exit = "capture"
            /\ Entries(db[p].op) = {}

\* An update of a widget that is not stored: no error, no entry.
C6_Witness ==
    \E p \in Procs :
      /\ Succeeded(p) /\ db[p].kind = "update" /\ db[p].table = "widgets"
      /\ db[p].vkind = "struct" /\ db[p].mark = NoRow
      /\ db[p].exit = "capture"
      /\ Entries(db[p].op) = {}

(***************************************************************************)
(* C7.  As claimed: an operation that returns with an error has no entry,  *)
(* whatever its kind.                                                      *)
(***************************************************************************)
C7_FailedNeverAudited ==
    \A p \in Procs :
      (pc[p] = "returned" /\ db[p].err # NoError) => Entries(db[p].op) = {}

(***************************************************************************)
(* C8.  The UserId of every entry is the string the operation's context    *)
(* holds under ContextKeyEmail, or "ctx-nonspecified" when it holds none;  *)
(* a context without actor does not stop the hook: the operation returns   *)
(* as it would have and its entry is written.                              *)
(***************************************************************************)
C8_ActorFromContext ==
    \A p \in Procs :
      /\ \A i \in Entries(db[p].op) :
           audit_logs[i].UserId =
             IF db[p].ctx.email.k = "nil" THEN "ctx-nonspecified"
             ELSE db[p].ctx.email.s
      /\ db[p].ctx.email.k \in {"nil", "string"}
         => /\ ~getCurrentUser(db[p].ctx).panic
            /\ (pc[p] = "panicked")
               => (~db[p].schema \/ \E key \in DOMAIN db[p].recordMap :
                                      db[p].recordMap[key].k # "string")
      /\ (db[p].ctx.email.k = "nil" /\ pc[p] = "returned" /\ db[p].exit = "ok"
            /\ ~db[p].dryRun /\ ~RolledBack(db[p]))
         => \E i \in Entries(db[p].op) : audit_logs[i].UserId = "ctx-nonspecified"

\* A create without actor in its context has returned without error and its
\* entry carries the sentinel.
C8_Witness ==
    \E p \in Procs :
      /\ Succeeded(p) /\ db[p].ctx.email.k = "nil" /\ db[p].kind = "create"
      /\ \E i \in Entries(db[p].op) : audit_logs[i].UserId = "ctx-nonspecified"

(***************************************************************************)
(* C9.  As claimed: no hook invocation panics, whatever the operation      *)
(* holds.                                                                  *)
(***************************************************************************)
C9_HooksNeverPanic ==
    \A p \in Procs : pc[p] # "panicked"

(***************************************************************************)
(* C10.  RegisterCallbacks returns nil only with the three hooks attached  *)
(* (create after gorm:create, update after gorm:update, delete before      *)
(* gorm:delete), and returns the error of the registration that failed.    *)
(***************************************************************************)
C10_RegisterCallbacksResult ==
    /\ reg.result = NoError
       => reg.attached =
            { [op |-> "create", at |-> "after", ref |-> "gorm:create",
               name |-> "custom_plugin:create_audit_log"],
              [op |-> "update", at |-> "after", ref |-> "gorm:update",
               name |-> "custom_plugin:update_audit_log"],
              [op |-> "delete", at |-> "before", ref |-> "gorm:delete",
               name |-> "custom_plugin:delete_audit_log"] }
    /\ reg.result # "none"
       => IF reg.failing = {} THEN reg.result = NoError
          ELSE \E name \in reg.failing : reg.result = "register " \o name

\* The update registration failed: its error is returned.
C10_Witness ==
    /\ reg.failing = {"custom_plugin:update_audit_log"}
    /\ reg.result = "register custom_plugin:update_audit_log"

(***************************************************************************)
(* C11.  The audit table is append-only under the hooks: a step of a hook  *)
(* leaves every row of audit_logs in place with every field unchanged and  *)
(* adds at most one row at the end; no hook step updates or deletes a row. *)
(***************************************************************************)
C11_AppendOnly ==
    [][HookStep => /\ IsPrefix(audit_logs, audit_logs')
                   /\ Len(audit_logs') <= Len(audit_logs) + 1]_vars

\* A row was in audit_logs, a hook then wrote its entry behind it, and the
\* earlier row is still what it was.
C11_Witness ==
    /\ Len(audit_logs) = 2
    /\ audit_logs[1] = HostAuditLog
    /\ audit_logs[2].op = 2
    /\ \E p \in Procs : db[p].op = 2 /\ db[p].exit = "ok" /\ pc[p] = "returned"

(***************************************************************************)
(* C12.  As claimed: every entry gets an id of its own, generated when it  *)
(* is written: no two rows of audit_logs share an id, and the id of the    *)
(* entry a hook hands to the insert is not the id of a row written for     *)
(* another operation.                                                      *)
(***************************************************************************)
C12_UniqueIdGeneratedAtWrite ==
    /\ \A i, j \in DOMAIN audit_logs :
         i # j => audit_logs[i].Id # audit_logs[j].Id
    /\ \A p \in Procs, i \in DOMAIN audit_logs :
         (db[p].exit \in {"ok", "persist"} /\ ~db[p].dryRun
            /\ audit_logs[i].op # db[p].op)
         => db[p].auditLog.Id # audit_logs[i].Id

\* The string under the "id" key of an encoded snapshot, "" when the key is
\* absent or its value is no string.
IdOf(data) ==
    IF \E i \in DOMAIN data : data[i].key = "id" /\ data[i].t = "string"
    THEN data[CHOOSE i \in DOMAIN data : data[i].key = "id"].lit
    ELSE ""

(***************************************************************************)
(* C13.  As claimed: the ObjectId of every entry is the string under the   *)
(* "id" key of the snapshot encoded in its Data, or "" when the key is     *)
(* absent or holds no string, and the extraction never panics: a hook that *)
(* has a schema and a context it can read does not panic.                  *)
(***************************************************************************)
C13_ObjectIdFromSnapshot ==
    \A p \in Procs :
      /\ \A i \in Entries(db[p].op) :
           audit_logs[i].ObjectId = IdOf(audit_logs[i].Data)
      /\ db[p].exit \in {"ok", "persist"}
         => db[p].auditLog.ObjectId = IdOf(db[p].auditLog.Data)
      /\ (db[p].schema /\ db[p].ctx.email.k \in {"nil", "string"})
         => pc[p] # "panicked"

(***************************************************************************)
(* C14.  As claimed: a hook invocation is one pass that always returns.    *)
(* Once it is over it has left by one of the four exits (guard, capture    *)
(* failure, persist failure, success) and handed control back to the       *)
(* callback chain; it has written one entry when it left by success on an  *)
(* operation that is no dry run (and that is not rolled back later), and   *)
(* none on any other exit; an operation never has more than one entry.     *)
(***************************************************************************)
C14_SingleShotHook ==
    \A p \in Procs :
      /\ Cardinality(Entries(db[p].op)) <= 1
      /\ pc[p] = "persist" => Entries(db[p].op) = {}
      /\ db[p].exit # "none"
         => /\ db[p].exit \in {"guard", "capture", "persist", "ok"}
            /\ pc[p] \in {"callback", "returned"}
            /\ Cardinality(Entries(db[p].op)) =
                 IF db[p].exit = "ok" /\ ~db[p].dryRun /\ ~RolledBack(db[p])
                 THEN 1 ELSE 0

(***************************************************************************)
(* C15.  The snapshot a hook takes is the row as it is stored at the       *)
(* moment of the read, whichever operation wrote it: the read is a step of *)
(* its own, after gorm:update, and another goroutine's gorm:update can run *)
(* in between.  The witness is the interleaving the claim names: two       *)
(* concurrent updates of one row, and the entry of one holds the value the *)
(* other wrote.                                                            *)
(***************************************************************************)
C15_SnapshotIsRowAtReadTime ==
    [][\A p \in Procs :
         (pc[p] = "callback" /\ pc'[p] = "persist")
         => \E r \in store[db[p].table] :
              /\ r.Id = db[p].Id
              /\ db'[p].recordMap = Unmarshal(MarshalEntity(db[p].model, r))]_vars

\* p wrote b (or c) to row 42, q wrote the other name to the same row, and
\* the UPDATE entry of p holds q's name.
C15_Witness ==
    \E p, q \in Procs :
      /\ p # q
      /\ db[p].kind = "update" /\ db[q].kind = "update"
      /\ db[p].table = db[q].table /\ db[p].Id = db[q].Id
      /\ db[p].Name # db[q].Name
      /\ db[p].mark = Row(db[p].Id, db[p].Name)
      /\ db[q].mark = Row(db[q].Id, db[q].Name)
      /\ \E i \in Entries(db[p].op) :
           /\ audit_logs[i].OperationType = "UPDATE"
           /\ audit_logs[i].Data = DataOf(db[p].table, Row(db[p].Id, db[q].Name))

(***************************************************************************)
(* C16.  On a dry run the hook reads no snapshot: getDataBeforeOperation   *)
(* returns the empty map without error whether or not the row is stored,   *)
(* so the hook never leaves by the capture exit, and the entry it builds   *)
(* has the empty string as ObjectId and the empty JSON object as Data.     *)
(***************************************************************************)
C16_DryRunEmptySnapshot ==
    \A p \in Procs :
      db[p].dryRun
      => /\ db[p].recordMap = EmptyMap
         /\ db[p].exit # "capture"
         /\ db[p].exit \in {"ok", "persist"}
            => /\ db[p].auditLog.ObjectId = ""
               /\ db[p].auditLog.Data = << >>
               /\ db[p].auditLog.TableName = db[p].table

\* A dry-run update of the stored widget 42: the hook built its entry with
\* no object id and no data.
C16_Witness ==
    \E p \in Procs :
      /\ db[p].dryRun /\ db[p].kind = "update" /\ db[p].Id = "42"
      /\ Row("42", "a") \in store.widgets
      /\ pc[p] = "returned" /\ db[p].exit = "ok"
      /\ db[p].auditLog.OperationType = "UPDATE"
      /\ db[p].auditLog.ObjectId = "" /\ db[p].auditLog.Data = << >>

\* The actor an operation's context names.
ActorOf(d) == IF d.ctx.email.k = "nil" THEN "ctx-nonspecified" ELSE d.ctx.email.s

\* The row an operation's entry is about: the row it wrote, or for a delete
\* the row it removes.
OwnRow(d) ==
    IF d.kind # "delete" THEN Row(d.Id, d.Name)
    ELSE IF d.mark # NoRow THEN d.mark
    ELSE IF Lookup(store[d.table], d.Id) # {}
    THEN CHOOSE r \in Lookup(store[d.table], d.Id) : TRUE
    ELSE NoRow

\* Every other operation that has started is aimed at another row.
OnItsOwnRow(p) ==
    \A q \in Procs \ {p} :
      db[q].op = 0 \/ <<db[q].table, db[q].Id>> # <<db[p].table, db[p].Id>>

FieldsAreOf(entry, d) ==
    /\ entry.TableName = d.table
    /\ entry.ObjectId = d.Id
    /\ entry.Data = DataOf(d.table, OwnRow(d))
    /\ entry.UserId = ActorOf(d)

(***************************************************************************)
(* C17.  Hook invocations share nothing: when concurrent operations are    *)
(* aimed at different rows, the entry a hook builds and the entry it       *)
(* stores carry the table, the id and the data of the row of its own       *)
(* operation and the actor of its own context, however the callbacks of    *)
(* the operations interleave.                                              *)
(***************************************************************************)
C17_EntryIsOfOwnOperation ==
    \A p \in Procs :
      OnItsOwnRow(p)
      => /\ \A i \in Entries(db[p].op) : FieldsAreOf(audit_logs[i], db[p])
         /\ db[p].exit \in {"ok", "persist"} => FieldsAreOf(db[p].auditLog, db[p])
         /\ pc[p] = "persist"
            => /\ getKeyFromData("id", db[p].recordMap) = Ok(db[p].Id)
               /\ prepareData(db[p].recordMap) = DataOf(db[p].table, OwnRow(db[p]))

\* q started first and is inside its hook, between the snapshot read and
\* the insert, on row 43 for bob; p started later on row 42 for alice, has
\* returned, and its entry is about row 42 and alice.
C17_Witness ==
    \E p, q \in Procs :
      /\ db[q].op = 1 /\ db[p].op = 2
      /\ db[p].Id = "42" /\ db[q].Id = "43"
      /\ ActorOf(db[p]) = "alice" /\ ActorOf(db[q]) = "bob"
      /\ pc[q] = "persist" /\ db[q].recordMap.id = Str("43")
      /\ pc[p] = "returned"
      /\ \E i \in Entries(db[p].op) :
           /\ audit_logs[i].ObjectId = "42"
           /\ audit_logs[i].UserId = "alice"

\* The hooks in the order RegisterCallbacks registers them.
RegistrationOrder ==
    << "custom_plugin:create_audit_log", "custom_plugin:update_audit_log",
       "custom_plugin:delete_audit_log" >>

AttachedNames == {r.name : r \in reg.attached}

(***************************************************************************)
(* C18.  RegisterCallbacks is not atomic.  It registers create, update,    *)
(* delete in this order and stops at the first registration that fails:    *)
(* it returns that registration's error, the hooks before it are attached  *)
(* and stay attached, and the hooks after it are not attached even when    *)
(* their registration would have succeeded.                                *)
(***************************************************************************)
C18_StopsAtFirstFailure ==
    reg.result # "none"
    => LET failed == {k \in DOMAIN RegistrationOrder :
                        RegistrationOrder[k] \in reg.failing}
       IN IF failed = {}
          THEN AttachedNames = {RegistrationOrder[k] : k \in DOMAIN RegistrationOrder}
          ELSE LET first == CHOOSE k \in failed : \A j \in failed : k <= j
               IN /\ AttachedNames = {RegistrationOrder[k] : k \in 1..(first - 1)}
                  /\ reg.result = "register " \o RegistrationOrder[first]

\* The update registration failed and the delete registration would have
\* succeeded: only the create hook is attached, and it audits a create,
\* while a delete runs with no hook.
C18_Witness ==
    /\ reg.failing = {"custom_plugin:update_audit_log"}
    /\ AttachedNames = {"custom_plugin:create_audit_log"}
    /\ \E i \in DOMAIN audit_logs :
         audit_logs[i].op = 1 /\ audit_logs[i].OperationType = "CREATE"
    /\ \E p \in Procs :
         /\ db[p].op = 2 /\ db[p].kind = "delete" /\ Succeeded(p)
         /\ db[p].chain = <<"gorm:delete">>

\* The operation is over for the host: it returned or it panicked.
Over(p) == pc[p] \in {"returned", "panicked"}

(***************************************************************************)
(* C19.  As claimed: with the hooks attached the business rows are what    *)
(* the operation leaves without them.  Without auditing an operation that  *)
(* ends with no error and is no dry run has executed: a create has stored  *)
(* its row, an update has left no other value in its row, a delete has     *)
(* removed its row.                                                        *)
(***************************************************************************)
C19_BusinessRowsAsWithoutAuditing ==
    \A p \in Procs :
      (Over(p) /\ db[p].table \in BusinessTables /\ db[p].err = NoError
         /\ ~db[p].dryRun)
      => /\ db[p].kind = "create" => Row(db[p].Id, db[p].Name) \in store[db[p].table]
         /\ db[p].kind = "update"
            => Lookup(store[db[p].table], db[p].Id) \subseteq {Row(db[p].Id, db[p].Name)}
         /\ db[p].kind = "delete" => Lookup(store[db[p].table], db[p].Id) = {}

====
